---- MODULE Spec2Model ----
(***************************************************************************)
(* Session engine of cc-wrap: class Claude (the version with lazy process  *)
(* recreation).  One Engine owns a sequence of child processes, the last   *)
(* one being `this.process`; every spawned process keeps its line, error   *)
(* and exit listeners, which are closures over the Engine.                 *)
(*                                                                         *)
(* A step of the model is one run-to-completion turn of the Node event     *)
(* loop: a listener invocation (line / error / exit), or a call made by    *)
(* the caller (query's first next(), a later next(), return(),             *)
(* interrupt(), stop()), together with the promise continuations it        *)
(* schedules.  A process's output is taken to be drained when its exit is  *)
(* observed.                                                               *)
(***************************************************************************)
EXTENDS Integers, Sequences, FiniteSets, TLC

\* ---------------------------------------------------------------- bounds
MaxQueries == 2    \* query() calls that get past their checks
MaxLines == 2      \* output lines the Engine's processes emit in total
MaxStreams == 2    \* stream() generators started on one builder
MaxUpdates == 2    \* updateArgs() calls made on one builder

Sids == {"s1", "s2"}

\* caller-supplied argument lists given to the constructor
ArgChoices == { <<>>, <<"--session", "s1">>, <<"--resume", "s1">> }
\* the arguments the interrupt tests construct the Engine with
TestArgs == <<>>

ExitCodes == {"zero", "nonzero"}   \* nonzero stands for any code !== 0, null included

MsgInterrupted == "Interrupted by user"
MsgExit == "Claude process exited with code"
MsgProcess == "Claude process error"
NoError == "null"

VARIABLES
  args,             \* this.args
  sessionId,        \* this.sessionId ("" until captured)
  currentHandler,   \* 0 = null, else the id of the query whose closure is installed
  error,            \* this.error (NoError = null)
  isInterrupted,    \* this.isInterrupted
  needsRecreation,  \* this.needsRecreation
  procs,            \* every process spawned so far; this.process is the last
  nlines,           \* number of lines the processes have written so far
  lastWrite,        \* the last line written to a stdin, and whether that process had exited
  events,           \* query closure: events[]
  resolve,          \* query closure: resolve !== null
  reject,           \* query closure: reject !== null
  gen,              \* generator of the started query: none / waiting / yielded / done
  calls,            \* number of query() calls that got past their checks
  callResult,       \* what the last step was: a query() call that started / threw the
                    \* usage error / threw the recorded error, a line that failed to
                    \* parse (noparse), or anything else (none)
  delivered,        \* events the started query has yielded to its consumer
  outcome,          \* open / complete / thrown / abandoned
  thrownMsg,        \* message of the error the started query threw
  intrAfterEv,      \* interrupt() was called while the started query was open, after
                    \* it had yielded an event and before it yielded the terminal one
  qFreshIdle        \* the started query recreated the process after an interrupt() made
                    \* while no query was active

\* the builder (reuse policy) that constructs Engines
VARIABLES
  claude,           \* builder: this.claude, 0 = null, else an index into engines
  lastSessionId,    \* builder: this.lastSessionId ("" = null)
  currentPrompt,    \* builder: this.currentPrompt !== null
  currentQuery,     \* builder: this.currentQuery, 0 = null, else the stream that set it
  builderArgs,      \* builder: this.args
  lastArgsKey,      \* builder: this.lastArgsKey
  engines,          \* every Engine the builder has constructed
  streams,          \* every stream() whose generator has been started
  updates,          \* number of updateArgs() calls made so far
  streamResult      \* what the last step was, where stream() calls are told apart: a
                    \* stream() that threw 'No prompt set' (noprompt), whose query threw
                    \* (busy) or started (started), or anything else (none)

builderVars == <<claude, lastSessionId, currentPrompt, currentQuery, builderArgs,
                 lastArgsKey, engines, streams, updates, streamResult>>

engineVars == <<args, sessionId, currentHandler, error, isInterrupted, needsRecreation>>
queryVars == <<events, resolve, reject, gen>>
obsVars == <<delivered, outcome, thrownMsg>>
histVars == <<intrAfterEv, qFreshIdle>>
vars == <<args, sessionId, currentHandler, error, isInterrupted, needsRecreation,
          procs, nlines, lastWrite, events, resolve, reject, gen, calls, callResult,
          delivered, outcome, thrownMsg, intrAfterEv, qFreshIdle>>

\* ---------------------------------------------------------------- helpers
Includes(a, x) == \E i \in 1..Len(a) : a[i] = x

\* (a spawnProcess that appends a resume directive whatever the arguments hold)
SpawnArgsAlways(a, sid) == a \o <<"--resume", sid>>

\* argsWithSession of spawnProcess
SpawnArgs(a, sid) ==
  IF sid # "" /\ ~Includes(a, "--session") /\ ~Includes(a, "--resume")
    THEN a \o <<"--resume", sid>>
    ELSE a

\* a freshly spawned ChildProcess with its readline interface
\* (pending: the prompts it has read from stdin and not answered yet;
\* starting: it has not shown yet whether the spawn succeeded)
NewProc(a) ==
  [args |-> a, killed |-> FALSE, exited |-> FALSE, rlClosed |-> FALSE,
   pending |-> <<>>, starting |-> TRUE]

\* the process is gone: its stdout ends, which closes the readline interface
Gone(pr) ==
  [pr EXCEPT !.exited = TRUE, !.rlClosed = TRUE, !.pending = <<>>, !.starting = FALSE]

\* process.stdin.write(line): a process that has not exited reads the prompt
Write(ps, p, m) ==
  IF ps[p].exited THEN ps ELSE [ps EXCEPT ![p].pending = Append(@, m.prompt)]

\* (a user message that never carries the continuation id)
UserMessageNoId(prompt, sid) == [prompt |-> prompt, session_id |-> ""]

\* the user message written to stdin
UserMessage(prompt, sid) == [prompt |-> prompt, session_id |-> sid]

\* (a kill() that sends no signal)
KillNothing(pr) == pr

\* ChildProcess.kill(): the signal is delivered, and `killed` set, only
\* while the process still has a handle
Kill(pr) == IF pr.exited THEN pr ELSE [pr EXCEPT !.killed = TRUE]

\* rl.close()
CloseRl(pr) == [pr EXCEPT !.rlClosed = TRUE]

Event(t, sid, p, n, q) == [type |-> t, sid |-> sid, proc |-> p, n |-> n, q |-> q, msg |-> ""]
ErrorEvent(m) == [type |-> "error", sid |-> "", proc |-> 0, n |-> 0, q |-> 0, msg |-> m]

\* (a buffer whose head is read without being removed)
ShiftKeep(evs) == evs

\* `events.shift()`: what is left of the buffer once its head is taken
Shift(evs) == Tail(evs)

\* (a yield loop that never takes its `break`)
IsTerminalNever(e) == FALSE

\* `if (event.type === "result") break`
IsTerminal(e) == e.type = "result"

\* (a line handler that takes no line for an init event)
IsInitNever(e) == FALSE

IsInit(e) == e.type = "init"

Process == Len(procs)
Open == gen \in {"waiting", "yielded"}

\* the started query has yielded an event, and not yet its terminal event
MidStream == Open /\ delivered # <<>> /\ delivered[Len(delivered)].type # "result"

\* (a generator that ends without running its finally block)
FinallyStale ==
  /\ UNCHANGED <<currentHandler, isInterrupted>>
  /\ gen' = "done"
  /\ events' = <<>>
  /\ resolve' = FALSE
  /\ reject' = FALSE

\* the generator ends: the finally block of query() runs, and the closure
\* (events, resolve, reject) becomes unreachable
Finally ==
  /\ currentHandler' = 0
  /\ isInterrupted' = FALSE
  /\ gen' = "done"
  /\ events' = <<>>
  /\ resolve' = FALSE
  /\ reject' = FALSE

\* this.currentHandler(e), when a handler is installed, with the promise
\* continuation it triggers in the generator
HandlerCall(e) ==
  IF e.type = "error"
    THEN IF reject
           THEN /\ UNCHANGED delivered
                /\ IF gen = "waiting"
                     THEN /\ outcome' = "thrown"
                          /\ thrownMsg' = e.msg
                          /\ Finally
                     ELSE /\ reject' = FALSE
                          /\ UNCHANGED <<events, resolve, gen, outcome, thrownMsg,
                                         currentHandler, isInterrupted>>
           ELSE /\ events' = Append(events, e)
                /\ UNCHANGED <<resolve, reject, gen, delivered, outcome, thrownMsg,
                               currentHandler, isInterrupted>>
    ELSE IF resolve
           THEN /\ resolve' = FALSE
                /\ UNCHANGED <<events, reject, outcome, thrownMsg, currentHandler, isInterrupted>>
                /\ IF gen = "waiting"
                     THEN /\ gen' = "yielded"
                          /\ delivered' = Append(delivered, e)
                     ELSE UNCHANGED <<gen, delivered>>
           ELSE /\ events' = Append(events, e)
                /\ UNCHANGED <<resolve, reject, gen, delivered, outcome, thrownMsg,
                               currentHandler, isInterrupted>>

\* `if (this.currentHandler) this.currentHandler(e)`
Notify(e) ==
  IF currentHandler # 0
    THEN HandlerCall(e)
    ELSE UNCHANGED <<events, resolve, reject, gen, delivered, outcome, thrownMsg,
                     currentHandler, isInterrupted>>

\* the builder after construction
NoKey == <<"null">>
BuilderInit ==
  /\ claude = 0
  /\ lastSessionId = ""
  /\ currentPrompt = FALSE
  /\ currentQuery = 0
  /\ builderArgs = <<>>
  /\ lastArgsKey = NoKey
  /\ engines = <<>>
  /\ streams = <<>>
  /\ updates = 0
  /\ streamResult = "none"

\* ---------------------------------------------------------------- Init
InitWith(A) ==
  /\ BuilderInit
  /\ args \in A
  /\ sessionId = ""
  /\ currentHandler = 0
  /\ error = NoError
  /\ isInterrupted = FALSE
  /\ needsRecreation = FALSE
  /\ procs = << NewProc(SpawnArgs(args, "")) >>
  /\ nlines = 0
  /\ lastWrite = [proc |-> 0, msg |-> UserMessage(0, ""), gone |-> FALSE]
  /\ events = <<>>
  /\ resolve = FALSE
  /\ reject = FALSE
  /\ gen = "none"
  /\ calls = 0
  /\ callResult = "none"
  /\ delivered = <<>>
  /\ outcome = "none"
  /\ thrownMsg = ""
  /\ intrAfterEv = FALSE
  /\ qFreshIdle = FALSE

Init == InitWith({TestArgs})
InitArgs == InitWith(ArgChoices)


\* ---------------------------------------------------------------- caller
\* (a query() that never finds a query in progress)
BusyNever == FALSE

\* `if (this.currentHandler)` at the top of query()
Busy == currentHandler # 0

\* (a query() that ignores the recorded error)
FailedNever(err) == FALSE

\* `if (this.error)` of query()
Failed(err) == err # NoError

\* (a recreation step that neither stops the old process nor spawns)
RecreateNothing(ps, a, sid) == ps

\* the recreation step of query(): stop the old process unless `killed`,
\* then spawnProcess()
Recreate(ps, a, sid) ==
  LET old == Len(ps)
      stopped == IF ~ps[old].killed
                   THEN [ps EXCEPT ![old] = Kill(CloseRl(@))]
                   ELSE ps
  IN stopped \o << NewProc(SpawnArgs(a, sid)) >>

\* (a query() that recreates the process whatever the flag says)
RecreationDueAlways == TRUE

\* `if (this.needsRecreation)` of query()
RecreationDue == needsRecreation

\* first next() of the generator returned by query(prompt): the body runs
\* up to its first await; the prompt is identified by the call's number
QueryCall ==
  /\ IF Busy
       THEN /\ callResult' = "usage"
            /\ UNCHANGED <<engineVars, procs, nlines, lastWrite, queryVars, calls, obsVars, histVars>>
       ELSE LET rec == RecreationDue
                ps1 == IF rec THEN Recreate(procs, args, sessionId) ELSE procs
                err1 == IF rec THEN NoError ELSE error
                cur == Len(ps1)
            IN IF Failed(err1)
                 THEN /\ callResult' = "error"
                      /\ UNCHANGED <<engineVars, procs, nlines, lastWrite, queryVars, calls, obsVars, histVars>>
                 ELSE /\ calls < MaxQueries
                      /\ calls' = calls + 1
                      /\ callResult' = "started"
                      /\ error' = err1
                      /\ needsRecreation' = FALSE
                      /\ isInterrupted' = IF rec THEN FALSE ELSE isInterrupted
                      /\ currentHandler' = calls + 1
                      /\ events' = <<>>
                      /\ resolve' = TRUE
                      /\ reject' = TRUE
                      /\ gen' = "waiting"
                      /\ procs' = Write(ps1, cur, UserMessage(calls + 1, sessionId))
                      /\ lastWrite' = [proc |-> cur, msg |-> UserMessage(calls + 1, sessionId),
                                        gone |-> ps1[cur].exited]
                      /\ delivered' = <<>>
                      /\ outcome' = "open"
                      /\ thrownMsg' = ""
                      /\ intrAfterEv' = FALSE
                      /\ qFreshIdle' = (rec /\ isInterrupted)
                      /\ UNCHANGED <<args, sessionId, nlines>>

\* a later next(): the generator resumes after `yield event`
Pull ==
  /\ gen = "yielded"
  /\ callResult' = "none"
  /\ UNCHANGED <<args, sessionId, error, needsRecreation, procs, nlines, lastWrite, calls, histVars>>
  /\ IF IsTerminal(delivered[Len(delivered)])
       THEN /\ outcome' = "complete"
            /\ Finally
            /\ UNCHANGED <<delivered, thrownMsg>>
       ELSE IF events # <<>>
         THEN IF Head(events).type = "error"
                THEN /\ outcome' = "thrown"
                     /\ thrownMsg' = Head(events).msg
                     /\ Finally
                     /\ UNCHANGED delivered
                ELSE /\ events' = Shift(events)
                     /\ delivered' = Append(delivered, Head(events))
                     /\ UNCHANGED <<resolve, reject, gen, outcome, thrownMsg,
                                    currentHandler, isInterrupted>>
         ELSE /\ resolve' = TRUE
              /\ reject' = TRUE
              /\ gen' = "waiting"
              /\ UNCHANGED <<events, delivered, outcome, thrownMsg, currentHandler, isInterrupted>>

\* return() while suspended at `yield event`: the consumer leaves the loop
Return ==
  /\ gen = "yielded"
  /\ outcome' = IF IsTerminal(delivered[Len(delivered)]) THEN "complete" ELSE "abandoned"
  /\ Finally
  /\ callResult' = "none"
  /\ UNCHANGED <<args, sessionId, error, needsRecreation, procs, nlines, lastWrite, calls,
                 delivered, thrownMsg, histVars>>

\* (an interrupt() that respawns at once instead of leaving it to query())
InterruptRespawn ==
  /\ isInterrupted' = TRUE
  /\ needsRecreation' = TRUE
  /\ procs' = Recreate(procs, args, sessionId)
  /\ intrAfterEv' = (intrAfterEv \/ MidStream)
  /\ callResult' = "none"
  /\ UNCHANGED <<args, sessionId, currentHandler, error, nlines, lastWrite, queryVars, calls,
                 obsVars, qFreshIdle>>

\* (an interrupt() that marks the Engine interrupted but asks for no recreation)
InterruptNoRecreation ==
  /\ isInterrupted' = TRUE
  /\ procs' = IF ~procs[Process].killed
                THEN [procs EXCEPT ![Process] = CloseRl(Kill(@))]
                ELSE procs
  /\ intrAfterEv' = (intrAfterEv \/ MidStream)
  /\ callResult' = "none"
  /\ UNCHANGED <<args, sessionId, currentHandler, error, needsRecreation, nlines, lastWrite,
                 queryVars, calls, obsVars, qFreshIdle>>

\* interrupt()
Interrupt ==
  /\ isInterrupted' = TRUE
  /\ needsRecreation' = TRUE
  /\ procs' = IF ~procs[Process].killed
                THEN [procs EXCEPT ![Process] = CloseRl(Kill(@))]
                ELSE procs
  /\ intrAfterEv' = (intrAfterEv \/ MidStream)
  /\ callResult' = "none"
  /\ UNCHANGED <<args, sessionId, currentHandler, error, nlines, lastWrite, queryVars, calls,
                 obsVars, qFreshIdle>>

\* stop()
Stop ==
  /\ procs' = [procs EXCEPT ![Process] = Kill(CloseRl(@))]
  /\ callResult' = "none"
  /\ UNCHANGED <<engineVars, nlines, lastWrite, queryVars, calls, obsVars, histVars>>

\* ---------------------------------------------------------------- process
LineKinds == {"init", "assistant", "result", "malformed"}

\* (a JSON.parse that accepts every line)
ParsesAlways(kind) == TRUE

\* `JSON.parse(line)` returns instead of throwing
Parses(kind) == kind # "malformed"

\* the prompt a process is working on: the oldest one it has not answered
Working(pr) == IF pr.pending # <<>> THEN Head(pr.pending) ELSE 0

\* rl.on("line"): process p writes one line to its stdout
ProcLine(p, kind, sid) ==
  LET pr == procs[p]
      e == Event(kind, sid, p, nlines + 1, Working(pr))
  IN /\ ~pr.exited /\ ~pr.rlClosed
     /\ nlines < MaxLines
     /\ nlines' = nlines + 1
     /\ kind = "result" => Working(pr) # 0
     /\ (kind = "init") = (sid # "")
     /\ procs' = [procs EXCEPT ![p].starting = FALSE,
                               ![p].pending = IF kind = "result" THEN Tail(@) ELSE @]
     /\ UNCHANGED <<args, error, needsRecreation, lastWrite, calls, histVars>>
     /\ IF ~Parses(kind)
          THEN /\ callResult' = "noparse"
               /\ UNCHANGED <<sessionId, currentHandler, isInterrupted, queryVars, obsVars>>
          ELSE /\ callResult' = "none"
               /\ sessionId' = IF IsInit(e) THEN e.sid ELSE sessionId
               /\ Notify(e)

\* process.on("error"): the process could not be spawned; Node reports a
\* failed spawn with 'error' in place of 'exit'
ProcError(p) ==
  /\ ~procs[p].exited /\ procs[p].starting
  /\ procs' = [procs EXCEPT ![p] = Gone(@)]
  /\ error' = MsgProcess
  /\ Notify(ErrorEvent(MsgProcess))
  /\ callResult' = "none"
  /\ UNCHANGED <<args, sessionId, needsRecreation, nlines, lastWrite, calls, histVars>>

\* process.on("exit")
ProcExit(p, code) ==
  /\ ~procs[p].exited
  /\ procs' = [procs EXCEPT ![p] = Gone(@)]
  /\ callResult' = "none"
  /\ UNCHANGED <<args, sessionId, nlines, lastWrite, calls, histVars>>
  /\ IF isInterrupted
       THEN /\ needsRecreation' = TRUE
            /\ UNCHANGED error
            /\ Notify(ErrorEvent(MsgInterrupted))
       ELSE IF code # "zero"
         THEN /\ error' = MsgExit
              /\ UNCHANGED needsRecreation
              /\ Notify(ErrorEvent(MsgExit))
         ELSE UNCHANGED <<error, needsRecreation, currentHandler, isInterrupted,
                          queryVars, obsVars>>

\* the Engine on its own: no builder takes part
Next ==
  \/ QueryCall /\ UNCHANGED builderVars
  \/ Pull /\ UNCHANGED builderVars
  \/ Return /\ UNCHANGED builderVars
  \/ Interrupt /\ UNCHANGED builderVars
  \/ Stop /\ UNCHANGED builderVars
  \/ \E p \in 1..Len(procs), kind \in LineKinds, sid \in Sids \cup {""} :
       ProcLine(p, kind, sid) /\ UNCHANGED builderVars
  \/ \E p \in 1..Len(procs) : ProcError(p) /\ UNCHANGED builderVars
  \/ \E p \in 1..Len(procs), code \in ExitCodes : ProcExit(p, code) /\ UNCHANGED builderVars

Spec == Init /\ [][Next]_vars

\* the same Engine, constructed with any of the caller argument lists
SpecArgs == InitArgs /\ [][Next]_vars

\* the Engine constructed with any of the caller argument lists, reduced to
\* the steps that decide what a process is spawned with: the queries and
\* interrupts that lead to a recreation, the init lines that set the
\* continuation id, and the exits
InitLine == \E p \in 1..Len(procs), sid \in Sids : ProcLine(p, "init", sid)
AnyExit == \E p \in 1..Len(procs), code \in ExitCodes : ProcExit(p, code)
NextSpawn ==
  \/ QueryCall /\ UNCHANGED builderVars
  \/ Pull /\ UNCHANGED builderVars
  \/ Return /\ UNCHANGED builderVars
  \/ Interrupt /\ UNCHANGED builderVars
  \/ InitLine /\ UNCHANGED builderVars
  \/ AnyExit /\ UNCHANGED builderVars
SpecSpawn == InitArgs /\ [][NextSpawn]_vars

\* the same Engine on processes that keep to the protocol: the first line a
\* freshly spawned process writes is its init event
ProtocolLine ==
  \E p \in 1..Len(procs), kind \in LineKinds, sid \in Sids \cup {""} :
    /\ procs[p].starting => kind = "init"
    /\ ProcLine(p, kind, sid)
NextInitFirst ==
  \/ QueryCall /\ UNCHANGED builderVars
  \/ Pull /\ UNCHANGED builderVars
  \/ Return /\ UNCHANGED builderVars
  \/ Interrupt /\ UNCHANGED builderVars
  \/ Stop /\ UNCHANGED builderVars
  \/ ProtocolLine /\ UNCHANGED builderVars
  \/ \E p \in 1..Len(procs) : ProcError(p) /\ UNCHANGED builderVars
  \/ AnyExit /\ UNCHANGED builderVars
SpecInitFirst == Init /\ [][NextInitFirst]_vars

\* the same Engine on a process that also writes control_response lines,
\* which JSON.parse returns as objects like any other message
ControlLine == \E p \in 1..Len(procs) : ProcLine(p, "control_response", "")
NextControl == Next \/ (ControlLine /\ UNCHANGED builderVars)
SpecControl == Init /\ [][NextControl]_vars


\* ---------------------------------------------------------------- claims
AllExited == \A p \in 1..Len(procs) : procs[p].exited
HasResume(a, sid) == \E i \in 1..Len(a) - 1 : a[i] = "--resume" /\ a[i + 1] = sid

\* C1: a step that is a query() call made while a handler is installed ends
\* with the usage error and changes nothing: no write to stdin, no spawn, the
\* active query's handler, buffer, pending consumer and the flags as before.
C1_BusyQueryRejected ==
  [][(callResult' \in {"started", "usage", "error"} /\ currentHandler # 0) =>
       /\ callResult' = "usage"
       /\ UNCHANGED <<args, sessionId, currentHandler, error, isInterrupted, needsRecreation,
                      procs, nlines, lastWrite, events, resolve, reject, gen, calls,
                      delivered, outcome, thrownMsg>>]_vars

\* a query() was just rejected while the active query holds buffered events
C1_Witness ==
  /\ callResult = "usage"
  /\ currentHandler # 0
  /\ gen = "yielded"
  /\ events # <<>>

\* C2: a query that was open when interrupt() was called ends with the
\* interrupted error: in the step in which the exit of its (running) process
\* is observed, the query throws that error, or the error is queued behind
\* the events it has not pulled yet (isInterrupted is set during an open
\* query exactly when interrupt() was called during it).
C2_InterruptedQueryEnds ==
  [][(/\ Open /\ isInterrupted
      /\ ~procs[Process].starting
      /\ ~procs[Process].exited /\ procs'[Process].exited) =>
       \/ gen' = "done" /\ outcome' = "thrown" /\ thrownMsg' = MsgInterrupted
       \/ \E i \in 1..Len(events') : events'[i].type = "error"]_vars

\* C3: a query interrupted after it had yielded at least one event (and
\* before its terminal event), and not abandoned by its consumer, ends by
\* throwing the interrupted error.
C3_InterruptedAfterEventThrows ==
  (gen = "done" /\ intrAfterEv /\ outcome # "abandoned") =>
    (outcome = "thrown" /\ thrownMsg = MsgInterrupted)

\* C4: the query that follows an interrupt() made while no query was active
\* runs on a fresh process and is not failed by a process exit unless that
\* fresh process has exited.
C4_QueryAfterIdleInterrupt ==
  (qFreshIdle /\ outcome = "thrown" /\ thrownMsg = MsgExit) => procs[Process].exited

\* C5: a process spawned by recreation while the Engine holds a continuation
\* id, the caller's arguments having no session-creation directive, is
\* spawned with a resume directive carrying that id.
C5_RecreationResumesSession ==
  [][(Len(procs') = Len(procs) + 1 /\ sessionId # "" /\ ~Includes(args, "--session")) =>
       HasResume(procs'[Len(procs')].args, sessionId)]_vars

\* C6: the number of spawned processes changes only in a query() call that
\* starts with the needs-recreation flag set; interrupt() sets both flags,
\* terminates the current handle and spawns nothing.
C6_InterruptNeverSpawns ==
  [][/\ Len(procs') # Len(procs) => (callResult' = "started" /\ needsRecreation)
     /\ Interrupt => /\ Len(procs') = Len(procs)
                     /\ isInterrupted' /\ needsRecreation'
                     /\ procs'[Process].killed \/ procs'[Process].exited]_vars

\* interrupt() was called, the process has died, and no query followed:
\* nothing was spawned
C6_Witness ==
  /\ isInterrupted /\ needsRecreation
  /\ Len(procs) = 1
  /\ procs[1].killed /\ procs[1].exited
  /\ calls = 0

\* C7: while the Engine is on its first process, a continuation id that has
\* been captured (from that process's first init event) is not changed by a
\* later line of the same process.
C7_FirstInitOnly ==
  [][(Len(procs) = 1 /\ sessionId # "") => sessionId' = sessionId]_vars

\* C8: the continuation id captured before a recreation survives the new
\* process's init events: it stays the id the current process was spawned to
\* resume.
C8_IdSurvivesRecreation ==
  \A i \in 1..Len(procs[Process].args) - 1 :
    procs[Process].args[i] = "--resume" => sessionId = procs[Process].args[i + 1]

\* C9: a query yields at most one terminal event, as the last event it
\* yields; it never both yields a terminal event and throws; and once it has
\* ended nothing more is yielded or thrown.
C9_EndsOnce ==
  /\ [](/\ \A i \in 1..Len(delivered) : delivered[i].type = "result" => i = Len(delivered)
        /\ outcome = "thrown" => \A i \in 1..Len(delivered) : delivered[i].type # "result"
        /\ outcome = "complete" => (delivered # <<>> /\ delivered[Len(delivered)].type = "result"))
  /\ [][(gen = "done" /\ callResult' # "started") =>
          UNCHANGED <<delivered, outcome, thrownMsg>>]_vars

\* a query has completed and the process has written another line since
C9_Witness ==
  /\ gen = "done"
  /\ outcome = "complete"
  /\ nlines > delivered[Len(delivered)].n

\* C10: no query is left waiting for its next event when every process of
\* the Engine has exited (zero exit status included), since nothing can end
\* it any more.
C10_NoWaitAfterExit ==
  ~(gen = "waiting" /\ AllExited)

\* the events a sequence of events holds, without the queued errors
Forwarded(evs) == SelectSeq(evs, LAMBDA e : e.type # "error")

C12_MalformedLineDropped ==
  /\ [](\A i \in 1..Len(delivered) : delivered[i].type # "malformed")
  /\ [](\A i \in 1..Len(events) : events[i].type # "malformed")
  /\ [][callResult' = "noparse" =>
          UNCHANGED <<args, sessionId, currentHandler, error, isInterrupted, needsRecreation,
                      events, resolve, reject, gen, delivered, outcome, thrownMsg>>]_vars

\* a line failed to parse while a consumer was waiting for the next event
\* of its query, and the query is still waiting
C12_Witness ==
  /\ callResult = "noparse"
  /\ currentHandler # 0
  /\ gen = "waiting"
  /\ outcome = "open"

\* C13: a control_response line is never an event of a query: none is
\* yielded to the consumer and none is put in the query's buffer.
C13_ControlResponseNotDelivered ==
  /\ \A i \in 1..Len(delivered) : delivered[i].type # "control_response"
  /\ \A i \in 1..Len(events) : events[i].type # "control_response"

\* C14: whichever way a started query ends (after its terminal event, by
\* throwing, or because its consumer returns early), the step that ends it
\* clears the handler and the interrupted flag; a handler is installed exactly
\* while a query is running, so the usage error is only ever thrown while one
\* is.
C14_EndClearsMarker ==
  /\ []((currentHandler # 0) <=> Open)
  /\ [](outcome \in {"complete", "thrown", "abandoned"} => (gen = "done" /\ currentHandler = 0))
  /\ [](callResult = "usage" => Open)
  /\ [][(Open /\ gen' = "done") => (currentHandler' = 0 /\ ~isInterrupted')]_vars

\* an interrupted query has thrown, and the flag it ran with is reset
C14_Witness ==
  /\ gen = "done"
  /\ outcome = "thrown"
  /\ thrownMsg = MsgInterrupted
  /\ currentHandler = 0
  /\ ~isInterrupted

QueryResults == {"started", "usage", "error"}

\* C15: a query() call that finds no query in progress and the
\* needs-recreation flag set always starts: it leaves the old handle
\* terminated (signalled or exited), clears the interrupted flag, the
\* needs-recreation flag and the recorded error, spawns exactly one process
\* and writes its prompt to that new process; the earlier processes are not
\* touched.
C15_RecreationOnQuery ==
  [][/\ (callResult' \in QueryResults /\ needsRecreation /\ currentHandler = 0) =>
          callResult' = "started"
     /\ (callResult' = "started" /\ needsRecreation) =>
          LET old == Len(procs)
          IN /\ Len(procs') = old + 1
             /\ procs'[old].killed \/ procs'[old].exited
             /\ \A i \in 1..old - 1 : procs'[i] = procs[i]
             /\ ~isInterrupted' /\ ~needsRecreation' /\ error' = NoError
             /\ ~procs'[old + 1].killed /\ ~procs'[old + 1].exited
             /\ procs'[old + 1].pending = <<calls'>>
             /\ lastWrite'.proc = old + 1 /\ ~lastWrite'.gone]_vars

\* the first query to start found the flag set: it runs on the second
\* process, which has read its prompt, and the first process is terminated
C15_Witness ==
  /\ callResult = "started"
  /\ calls = 1
  /\ Len(procs) = 2
  /\ procs[1].killed \/ procs[1].exited
  /\ procs[2].pending = <<1>>

\* C16: a query() call that finds no query in progress, an error recorded
\* and no recreation pending throws the recorded error and changes nothing:
\* no handler, no write to a stdin, no spawn, flags and error as they were.
C16_RecordedErrorRethrown ==
  [][(callResult' \in QueryResults /\ currentHandler = 0 /\ ~needsRecreation /\ error # NoError) =>
       /\ callResult' = "error"
       /\ UNCHANGED <<args, sessionId, currentHandler, error, isInterrupted, needsRecreation,
                      procs, nlines, lastWrite, events, resolve, reject, gen, calls,
                      delivered, outcome, thrownMsg>>]_vars

\* a query() has just thrown the exit error recorded on the Engine
C16_Witness ==
  /\ callResult = "error"
  /\ error = MsgExit
  /\ ~needsRecreation
  /\ currentHandler = 0
  /\ procs[Process].exited

\* C17: when a process that was not sent a signal exits with a non-zero
\* status while the interrupted flag is clear, that step records the exit
\* error, spawns nothing and leaves the needs-recreation flag as it was; and
\* if a query is running, the step throws the exit error to it or queues the
\* error behind the events it has not pulled yet.
C17_CrashSurfaced ==
  [][\A p \in 1..Len(procs) :
       (ProcExit(p, "nonzero") /\ ~isInterrupted /\ ~procs[p].killed) =>
         /\ error' = MsgExit
         /\ Len(procs') = Len(procs)
         /\ needsRecreation' = needsRecreation
         /\ Open => \/ gen' = "done" /\ outcome' = "thrown" /\ thrownMsg' = MsgExit
                    \/ \E i \in 1..Len(events') : events'[i].type = "error"]_vars

\* C18: query() is never rejected in a state from which it would be rejected
\* the same way for ever: when a call is turned away because a query is in
\* progress, that query can still end, either because its consumer holds an
\* event (and can pull or return) or because a process is left whose exit or
\* output can reach the handler.
C18_NoPermanentFailure ==
  callResult = "usage" => (gen = "yielded" \/ \E p \in 1..Len(procs) : ~procs[p].exited)

\* C19: of the processes an Engine has spawned, only the last one, its
\* current handle, can be neither exited nor signalled: every process that
\* has been replaced had exited or had been sent a termination signal when
\* its replacement was spawned.
C19_OneLiveHandle ==
  \A i \in 1..Len(procs) - 1 : procs[i].killed \/ procs[i].exited

\* a replacement is running while the process it replaced, which has been
\* sent its signal, has not exited yet
C19_Witness ==
  /\ Len(procs) = 2
  /\ procs[1].killed /\ ~procs[1].exited
  /\ ~procs[2].killed /\ ~procs[2].exited

\* ---------------------------------------------------------------- builder
\* updateArgs(flag, value) of the builder: every occurrence of the flag that
\* is not the last element is removed (its old value stays), then the flag and
\* the new value are pushed
UpdateArgs(a, flag, value) ==
  LET keep == {i \in 1..Len(a) : ~(a[i] = flag /\ i < Len(a))}
      F[i \in 0..Len(a)] ==
        IF i = 0 THEN <<>>
        ELSE IF i \in keep THEN Append(F[i - 1], a[i]) ELSE F[i - 1]
  IN F[Len(a)] \o <<flag, value>>

\* the argument lists a builder holds after at most two sessionId(id) calls
BuilderArgs ==
  LET one == {UpdateArgs(<<>>, "--session", s) : s \in Sids}
  IN {<<>>} \cup one \cup {UpdateArgs(a, "--session", s) : a \in one, s \in Sids}

\* (an ensureProcess() that forgets the previous session)
EnsureArgsPlain(a, last) == a

\* the arguments ensureProcess() constructs the Engine with
EnsureArgs(a, last) ==
  IF last # "" /\ ~Includes(a, "--session")
    THEN a \o <<"--resume", last>>
    ELSE a

Count(a, x) == Cardinality({i \in 1..Len(a) : a[i] = x})

\* at most one of --session and --resume, and at most one --resume
OneDirective(a) ==
  /\ Count(a, "--resume") <= 1
  /\ ~(Includes(a, "--session") /\ Includes(a, "--resume"))

\* what the Engine spawns when the builder constructs it, for every argument
\* list and last session id of the builder and every captured id
BuilderSpawns ==
  {SpawnArgs(EnsureArgs(a, last), sid) :
     a \in BuilderArgs, last \in Sids \cup {""}, sid \in Sids \cup {""}}

C21_InterruptIdempotent ==
  [][Interrupt =>
       /\ (isInterrupted /\ needsRecreation) =>
            UNCHANGED <<args, sessionId, currentHandler, error, isInterrupted, needsRecreation,
                        procs, nlines, lastWrite, events, resolve, reject, gen, calls,
                        delivered, outcome, thrownMsg>>
       /\ \A p \in 1..Len(procs) : procs[p].killed => procs'[p] = procs[p]]_vars

\* interrupt() has been called during a query whose process has been sent
\* the signal and has not exited yet; a further call finds this state
C21_Witness ==
  /\ isInterrupted /\ needsRecreation
  /\ Open
  /\ procs[Process].killed /\ ~procs[Process].exited
  /\ callResult = "none"

\* ---------------------------------------------------------------- reuse policy
\* The builder (ClaudeCodeBuilder) with the Engines it constructs.  Of an
\* Engine the builder sees: the arguments it was constructed with, whether
\* stop() or interrupt() was called on it, and which stream's query holds its
\* handler (0 = none).  `config` remembers the builder's argument list at
\* construction.
DirBar == "d|d"
Settings == { <<"--session", "s1">>, <<"--cwd", "d">>, <<"--cwd", DirBar>> }

\* the characters of an argument, as far as the separator of join() goes
Chars(t) == IF t = DirBar THEN <<"d", "|", "d">> ELSE <<t>>

\* getArgsKey(): this.args.join("|")
Join(a) ==
  LET F[i \in 0..Len(a)] ==
        IF i = 0 THEN <<>>
        ELSE IF i = 1 THEN Chars(a[1])
        ELSE F[i - 1] \o <<"|">> \o Chars(a[i])
  IN F[Len(a)]

NewEngine(a, cfg) ==
  [args |-> a, config |-> cfg, stopped |-> FALSE, interrupted |-> FALSE, handler |-> 0]

\* (a policy that always keeps the Engine it has)
NeedsNewProcessNever == FALSE

\* needsNewProcess()
needsNewProcess == lastArgsKey # Join(builderArgs)

\* sessionId(id) / workingDirectory(dir): updateArgs(flag, value)
BuilderUpdate(flag, value) ==
  /\ updates < MaxUpdates
  /\ updates' = updates + 1
  /\ builderArgs' = UpdateArgs(builderArgs, flag, value)
  /\ UNCHANGED <<claude, lastSessionId, currentPrompt, currentQuery, lastArgsKey, engines, streams>>

\* prompt(text)
BuilderPrompt ==
  /\ currentPrompt' = TRUE
  /\ UNCHANGED <<claude, lastSessionId, currentQuery, builderArgs, lastArgsKey, engines,
                 streams, updates>>

\* first next() of stream(): the prompt check, ensureProcess(), and the
\* first next() of claude.query(), which throws if the Engine has a handler
\* installed (the finally block of stream() then runs) and otherwise installs
\* this stream's (after the Engine's own recreation, if it was interrupted)
BuilderStream ==
  /\ Len(streams) < MaxStreams
  /\ UNCHANGED <<lastSessionId, builderArgs, updates>>
  /\ IF ~currentPrompt
       THEN UNCHANGED <<claude, currentPrompt, currentQuery, lastArgsKey, engines, streams>>
       ELSE LET replace == claude = 0 \/ needsNewProcess
                stopped == IF replace /\ claude # 0
                             THEN [engines EXCEPT ![claude].stopped = TRUE]
                             ELSE engines
                engs == IF replace
                          THEN Append(stopped, NewEngine(EnsureArgs(builderArgs, lastSessionId),
                                                         builderArgs))
                          ELSE engines
                c == IF replace THEN Len(engs) ELSE claude
                s == Len(streams) + 1
            IN /\ claude' = c
               /\ lastArgsKey' = IF replace THEN Join(builderArgs) ELSE lastArgsKey
               /\ IF engs[c].handler # 0
                    THEN /\ engines' = engs
                         /\ streams' = Append(streams, [eng |-> c, open |-> FALSE, seenInit |-> FALSE])
                         /\ currentPrompt' = FALSE
                         /\ currentQuery' = 0
                    ELSE /\ engines' = [engs EXCEPT ![c].handler = s, ![c].interrupted = FALSE]
                         /\ streams' = Append(streams, [eng |-> c, open |-> TRUE, seenInit |-> FALSE])
                         /\ currentQuery' = s
                         /\ UNCHANGED currentPrompt

\* the loop of stream() receives an init event from its query
BuilderInitEvent(s, sid) ==
  /\ streams[s].open
  /\ ~engines[streams[s].eng].stopped /\ ~engines[streams[s].eng].interrupted
  /\ ~streams[s].seenInit
  /\ streams' = [streams EXCEPT ![s].seenInit = TRUE]
  /\ lastSessionId' = sid
  /\ UNCHANGED <<claude, currentPrompt, currentQuery, builderArgs, lastArgsKey, engines, updates>>

\* (a stream whose end leaves the prompt pending)
BuilderStreamEndKeepsPrompt(s) ==
  /\ streams[s].open
  /\ streams' = [streams EXCEPT ![s].open = FALSE]
  /\ engines' = [engines EXCEPT ![streams[s].eng].handler = 0]
  /\ currentQuery' = 0
  /\ UNCHANGED <<claude, lastSessionId, currentPrompt, builderArgs, lastArgsKey, updates>>

\* the query of a stream ends (terminal event, error, or return() of the
\* consumer): the Engine's finally block and then the stream's run
BuilderStreamEnd(s) ==
  /\ streams[s].open
  /\ streams' = [streams EXCEPT ![s].open = FALSE]
  /\ engines' = [engines EXCEPT ![streams[s].eng].handler = 0]
  /\ currentPrompt' = FALSE
  /\ currentQuery' = 0
  /\ UNCHANGED <<claude, lastSessionId, builderArgs, lastArgsKey, updates>>

\* interrupt() of the builder
BuilderInterrupt ==
  /\ claude # 0
  /\ engines' = [engines EXCEPT ![claude].interrupted = TRUE]
  /\ UNCHANGED <<claude, lastSessionId, currentPrompt, currentQuery, builderArgs, lastArgsKey,
                 streams, updates>>

\* stop() of the builder
BuilderStop ==
  /\ claude # 0
  /\ engines' = [engines EXCEPT ![claude].stopped = TRUE]
  /\ claude' = 0
  /\ currentQuery' = 0
  /\ UNCHANGED <<lastSessionId, currentPrompt, builderArgs, lastArgsKey, streams, updates>>

\* the builder and its Engines; the Engine of Spec takes no step here
NextBuilder ==
  \/ (\E st \in Settings : BuilderUpdate(st[1], st[2])) /\ UNCHANGED <<vars, streamResult>>
  \/ BuilderPrompt /\ UNCHANGED <<vars, streamResult>>
  \/ BuilderStream /\ UNCHANGED <<vars, streamResult>>
  \/ (\E s \in 1..Len(streams), sid \in Sids : BuilderInitEvent(s, sid)) /\ UNCHANGED <<vars, streamResult>>
  \/ (\E s \in 1..Len(streams) : BuilderStreamEnd(s)) /\ UNCHANGED <<vars, streamResult>>
  \/ BuilderInterrupt /\ UNCHANGED <<vars, streamResult>>
  \/ BuilderStop /\ UNCHANGED <<vars, streamResult>>

allVars == <<vars, builderVars>>
SpecBuilder == Init /\ [][NextBuilder]_allVars

\* a stream() has just got past its prompt check
StreamStarted == Len(streams') = Len(streams) + 1

C23_ReplacementResumes ==
  [][/\ (StreamStarted /\ Len(engines') = Len(engines) + 1) =>
          LET new == engines'[Len(engines')]
          IN /\ claude' = Len(engines')
             /\ ~new.stopped
             /\ claude # 0 => engines'[claude].stopped
             /\ (lastSessionId # "" /\ ~Includes(builderArgs, "--session")) =>
                  new.args = builderArgs \o <<"--resume", lastSessionId>>
             /\ (lastSessionId = "" \/ Includes(builderArgs, "--session")) =>
                  new.args = builderArgs
     /\ (claude # 0 /\ claude' = 0) => lastSessionId' = lastSessionId]_allVars

\* the builder's second Engine was constructed to resume the captured
\* session, and the first one is stopped
C23_Witness ==
  /\ Len(engines) = 2
  /\ claude = 2
  /\ engines[1].stopped /\ ~engines[2].stopped
  /\ \E sid \in Sids : HasResume(engines[2].args, sid)

\* C24: a stream() replaces the builder's Engine only when no query of that
\* Engine is open (no stream holds its handler), and it never interrupts an
\* Engine.
C24_ReplaceBetweenQueries ==
  [][StreamStarted =>
       /\ (claude # 0 /\ Len(engines') = Len(engines) + 1) => engines[claude].handler = 0
       /\ \A e \in 1..Len(engines) : engines'[e].interrupted => engines[e].interrupted]_allVars

\* C25: a query() that gets past its checks writes one user message, to the
\* stdin of the process that is current once its recreation step is done,
\* carrying its prompt and the continuation id the Engine holds at that moment
\* ("" if none); that process, unless it has exited, has exactly this one
\* prompt more to read; and no other step writes to a stdin.
C25_OneWritePerQuery ==
  [][/\ callResult' = "started" =>
          LET cur == Len(procs')
              before == IF cur = Len(procs) THEN procs[cur].pending ELSE <<>>
          IN /\ lastWrite'.proc = cur
             /\ lastWrite'.msg = [prompt |-> calls', session_id |-> sessionId]
             /\ lastWrite'.gone = procs'[cur].exited
             /\ ~procs'[cur].exited => procs'[cur].pending = Append(before, calls')
             /\ \A p \in 1..cur - 1 : procs'[p].pending = procs[p].pending
     /\ callResult' # "started" =>
          /\ lastWrite' = lastWrite
          /\ \A p \in 1..Len(procs) : Len(procs'[p].pending) <= Len(procs[p].pending)]_vars

\* a query has just been sent to a process with the continuation id
\* captured earlier
C25_Witness ==
  /\ callResult = "started"
  /\ sessionId # ""
  /\ lastWrite.proc = Process
  /\ lastWrite.msg.session_id = sessionId
  /\ procs[Process].pending = <<calls>>

\* C26: on processes whose first line is their init event, a query that has
\* ended after its terminal event leaves the continuation id non-empty; an id
\* once captured is never emptied; and a query that starts while an id is held
\* writes a non-empty id in its user message.
C26_IdCapturedBeforeNextQuery ==
  /\ [](outcome = "complete" => sessionId # "")
  /\ [](\A p \in 1..Len(procs) : ~procs[p].starting /\ ~procs[p].exited => sessionId # "")
  /\ [][/\ sessionId # "" => sessionId' # ""
        /\ (callResult' = "started" /\ sessionId # "") => lastWrite'.msg.session_id # ""]_vars

\* a query has completed without having seen an init event (the init line
\* came before the query started), and the id is recorded
C26_Witness ==
  /\ outcome = "complete"
  /\ gen = "done"
  /\ Len(delivered) = 1
  /\ delivered[1].type = "result"
  /\ sessionId # ""

\* C27: once a process error is recorded on the Engine it stays recorded:
\* no later step replaces or clears it, spawns a process, or starts a query.
C27_ProcessErrorFatal ==
  [][error = MsgProcess =>
       /\ error' = MsgProcess
       /\ Len(procs') = Len(procs)
       /\ callResult' # "started"]_vars

\* C28: the step in which a process that has been replaced by recreation is
\* seen to end (its exit or its error event) changes nothing of the Engine or
\* of the running query: recorded error, flags, handler, buffer, pending
\* consumer and the consumer's events stay as they are.
C28_ReplacedHandleSilent ==
  [][(\E p \in 1..Len(procs) - 1 : ~procs[p].exited /\ procs'[p].exited) =>
       UNCHANGED <<sessionId, currentHandler, error, isInterrupted, needsRecreation,
                   events, resolve, reject, gen, delivered, outcome, thrownMsg>>]_vars

\* a process event passes an error to the handler in this step: an error
\* event, an exit with a non-zero status, or any exit while the interrupted
\* flag is set
ErrorNotified ==
  /\ currentHandler # 0
  /\ \E p \in 1..Len(procs) :
       \/ ProcError(p)
       \/ ProcExit(p, "nonzero")
       \/ isInterrupted /\ ProcExit(p, "zero")

\* C29: an error passed to the handler of the running query is not lost: in
\* that step the query throws it, or it is put in the buffer, from where a
\* following pull throws it.
C29_NoErrorDropped ==
  [][ErrorNotified =>
       \/ gen' = "done" /\ outcome' = "thrown"
       \/ Len(events') = Len(events) + 1 /\ events'[Len(events')].type = "error"]_vars

\* interrupt() has been called on handle p: a handle is replaced only by the
\* recreation that interrupt() requests, and `needsRecreation` stays set from
\* interrupt() until that recreation
InterruptedHandle(p) == p < Len(procs) \/ needsRecreation

\* C30: the exit of a handle on which interrupt() was called does not set
\* the recorded error, whether or not the interrupted query has ended by
\* the time the exit is observed.
C30_InterruptExitNotAbnormal ==
  [][\A p \in 1..Len(procs) :
       (InterruptedHandle(p) /\ \E code \in ExitCodes : ProcExit(p, code)) =>
         error' = error]_vars

\* C31: a query() that starts writes its prompt to a process that has not
\* exited: after the exit of the current process has been observed, whatever
\* its status, the next query() respawns before it writes, or throws and
\* writes nothing.
C31_WriteToLiveHandle ==
  [][callResult' = "started" => ~lastWrite'.gone]_vars

\* C32: the interrupted flag is never set without the needs-recreation
\* flag; interrupt() sets the needs-recreation flag; the flag is cleared
\* only by a query() that starts, and that query spawns a process and
\* writes its prompt to it (so the flag also outlives the end of the
\* interrupted query); and every prompt is written to the current process
\* with the flag clear, hence never to a process interrupt() terminated.
C32_RecreationFlagHeld ==
  /\ [](isInterrupted => needsRecreation)
  /\ [][/\ Interrupt => needsRecreation'
        /\ (needsRecreation /\ ~needsRecreation') =>
              /\ callResult' = "started"
              /\ Len(procs') = Len(procs) + 1
        /\ callResult' = "started" =>
              /\ lastWrite'.proc = Len(procs')
              /\ ~needsRecreation']_vars

\* the interrupted query has ended, its finally block has cleared the
\* interrupted flag, and the needs-recreation flag is still set on the
\* process interrupt() signalled
C32_Witness ==
  /\ gen = "done"
  /\ currentHandler = 0
  /\ intrAfterEv
  /\ ~isInterrupted
  /\ needsRecreation
  /\ procs[Process].killed

\* C33: on an Engine that has not been interrupted and recreated (it still
\* runs its first process), a query that follows an abandoned one is handed
\* only events the process produced for its own prompt (or for no prompt at
\* all): never an event, terminal or not, produced for the abandoned prompt.
C33_OwnEventsOnly ==
  Len(procs) = 1 =>
    \A i \in 1..Len(delivered) : delivered[i].q \in {0, calls}

\* C34: an error passed to the handler while events wait in the buffer is
\* put in the buffer behind them, so that the consumer is handed those
\* events first and the error after them.
C34_ErrorBehindBuffered ==
  [][(ErrorNotified /\ events # <<>>) =>
       /\ Len(events') = Len(events) + 1
       /\ events' = Append(events, events'[Len(events')])
       /\ events'[Len(events')].type = "error"]_vars

\* C35: a query() call made with the needs-recreation flag clear spawns no
\* process and signals none; if it starts, it writes its prompt to the
\* current process, which is the process the query before it was written
\* to.
C35_NoRecreationWithoutFlag ==
  [][(callResult' \in QueryResults /\ ~needsRecreation) =>
       /\ Len(procs') = Len(procs)
       /\ \A p \in 1..Len(procs) :
            /\ procs'[p].killed = procs[p].killed
            /\ procs'[p].exited = procs[p].exited
            /\ procs'[p].rlClosed = procs[p].rlClosed
       /\ callResult' = "started" =>
            /\ lastWrite'.proc = Len(procs)
            /\ calls > 0 => lastWrite'.proc = lastWrite.proc]_vars

\* a second query has just started on the process the first was written to
C35_Witness ==
  /\ callResult = "started"
  /\ calls = 2
  /\ Len(procs) = 1
  /\ lastWrite.proc = 1
  /\ procs[1].pending = <<1, 2>>

\* the flags the builder's setters write
Flags == {st[1] : st \in Settings}

\* C36: the builder's argument list is a list of flag/value pairs with no
\* flag repeated, so that no value of an earlier setter call is left in it.
C36_ArgsAreLatestSettings ==
  /\ Len(builderArgs) % 2 = 0
  /\ \A i \in 1..Len(builderArgs) : (i % 2 = 1) = (builderArgs[i] \in Flags)
  /\ \A i, j \in 1..Len(builderArgs) : (i < j /\ i % 2 = 1) => builderArgs[i] # builderArgs[j]

\* the builder with its stream() calls told apart by what they did
StreamCall ==
  /\ BuilderStream
  /\ streamResult' = IF ~currentPrompt THEN "noprompt"
                     ELSE IF streams'[Len(streams')].open THEN "started" ELSE "busy"
NextPrompt ==
  \/ (\E st \in Settings : BuilderUpdate(st[1], st[2])) /\ streamResult' = "none" /\ UNCHANGED vars
  \/ BuilderPrompt /\ streamResult' = "none" /\ UNCHANGED vars
  \/ StreamCall /\ UNCHANGED vars
  \/ (\E s \in 1..Len(streams), sid \in Sids : BuilderInitEvent(s, sid))
       /\ streamResult' = "none" /\ UNCHANGED vars
  \/ (\E s \in 1..Len(streams) : BuilderStreamEnd(s)) /\ streamResult' = "none" /\ UNCHANGED vars
  \/ BuilderInterrupt /\ streamResult' = "none" /\ UNCHANGED vars
  \/ BuilderStop /\ streamResult' = "none" /\ UNCHANGED vars
SpecPrompt == Init /\ [][NextPrompt]_allVars

C38_StopEndsOpenQuery ==
  [][(/\ Open /\ ~isInterrupted
      /\ procs[Process].killed
      /\ ProcExit(Process, "nonzero")) =>
       \/ gen' = "done" /\ outcome' = "thrown"
       \/ events' # <<>> /\ events'[Len(events')].type = "error"]_vars

====
